---- MODULE Spec2Model ----
(***************************************************************************)
(* Budget-constrained link ranking (src/src/embedding.py), the retrying    *)
(* chain invocation (src/src/rag_chain.py), the file caches                *)
(* (src/src/cache_manager.py) and the parallel page loading                *)
(* (src/src/document_processor.py) of the GitLab handbook chatbot.         *)
(*                                                                         *)
(* Encodings.  A URL is a number of URLS; the numeric order stands for the *)
(* string order of the URLs.  A string that is only ever tokenised         *)
(* (a query, a link context) is the sequence of its whitespace-separated   *)
(* words.  A page text is the sequence of its characters.  An embedding    *)
(* vector is a tuple of integers.  A file is the sequence of what was      *)
(* written to it, NoFile when it does not exist.                           *)
(***************************************************************************)
EXTENDS Integers, Sequences, FiniteSets, TLC

\* ------------------------------------------------------------------ bounds
MaxLinks == 2        \* longest candidate list handed to the ranker
MaxBudget == 3       \* largest TOTAL_EMBEDDING_BUDGET
MaxMinLinks == 3     \* largest min_links
MaxTopK == 2         \* largest top_k
MaxTextLen == 2      \* longest page text, in characters
MaxUrls == 2         \* longest URL list handed to the document processor
CHUNK_SIZE == 1      \* config.py CHUNK_SIZE, scaled to the page texts
CHUNK_OVERLAP == 0   \* config.py CHUNK_OVERLAP, scaled likewise

\* ------------------------------------------------------------ input sets
URLS == {1, 2}
QUERIES == {<<"benefits", "Leave">>}
CONTEXTS == {<<"Benefits", "page">>, <<"pay">>}
VECTORS == {<<1, 0>>, <<1, 1>>}
LINKS == [url : URLS, context : CONTEXTS]
CHARS == {"a", "CR", "LF"}

\* ---------------------------------------------------------------- helpers
Range(s) == {s[i] : i \in 1..Len(s)}

Min(a, b) == IF a < b THEN a ELSE b

Max(a, b) == IF a > b THEN a ELSE b

SeqsUpTo(S, n) == UNION {[1..k -> S] : k \in 0..n}

\* Python's s[:m]: the first m items, all but the last -m when m is negative.
SliceTo(s, m) ==
    IF m >= 0 THEN SubSeq(s, 1, Min(m, Len(s)))
    ELSE SubSeq(s, 1, Max(Len(s) + m, 0))

\* str.lower() on one word.
Lower(w) ==
    CASE w = "Benefits" -> "benefits"
      [] w = "Leave" -> "leave"
      [] OTHER -> w

\* ------------------------------------------------------ src/src/utils.py
\* hash_url: the md5 hex digest of the URL, one key per URL.
hash_url(url) == <<"md5", url>>

KEYS == {hash_url(u) : u \in URLS}

\* --------------------------------------------------- src/src/crawling.py
naive_relevance_score(context, query) ==
    LET query_keywords == {Lower(w) : w \in Range(query)}
        context_words == {Lower(w) : w \in Range(context)}
    IN Cardinality(query_keywords \cap context_words)

\* ---------------------------------------------- src/src/cache_manager.py
\* A file of the cache directory.
NoFile == [exists |-> FALSE, data |-> <<>>]

File(data) == [exists |-> TRUE, data |-> data]

\* What load returns: None, or the value read.
None == [some |-> FALSE, val |-> <<>>]

Some(val) == [some |-> TRUE, val |-> val]

\* json.dump of a list of numbers: the tokens written to the file.
Tok(t) == [t |-> t, v |-> 0]

Num(n) == [t |-> "num", v |-> n]

RECURSIVE JsonItems(_)
JsonItems(v) ==
    IF v = <<>> THEN <<>>
    ELSE IF Len(v) = 1 THEN <<Num(v[1])>>
    ELSE <<Num(v[1]), Tok(",")>> \o JsonItems(Tail(v))

json_dump(v) == <<Tok("[")>> \o JsonItems(v) \o <<Tok("]")>>

\* json.load: Some(the list the tokens denote), None standing for the
\* JSONDecodeError raised when they denote none.
RECURSIVE JsonParseItems(_)
JsonParseItems(t) ==
    IF Len(t) = 1 /\ t[1].t = "num" THEN Some(<<t[1].v>>)
    ELSE IF Len(t) >= 3 /\ t[1].t = "num" /\ t[2] = Tok(",")
    THEN LET rest == JsonParseItems(SubSeq(t, 3, Len(t)))
         IN IF rest.some THEN Some(<<t[1].v>> \o rest.val) ELSE None
    ELSE None

json_load(t) ==
    IF Len(t) < 2 \/ t[1] # Tok("[") \/ t[Len(t)] # Tok("]") THEN None
    ELSE IF Len(t) = 2 THEN Some(<<>>)
    ELSE JsonParseItems(SubSeq(t, 2, Len(t) - 1))

\* EmbeddingCache.save: the embedding files after the call.
EmbeddingCache_save(files, url, embedding) ==
    [files EXCEPT ![hash_url(url)] = File(json_dump(embedding))]

\* EmbeddingCache_load finding no file, whatever was saved.
EmbeddingCache_loadMiss(files, url) == None

\* EmbeddingCache.load: the cached vector, None when there is no file or
\* it does not parse.
EmbeddingCache_load(files, url) ==
    LET path == hash_url(url)
    IN IF files[path].exists THEN json_load(files[path].data) ELSE None

\* f.write(text) on a file opened in text mode: each "\n" becomes the
\* platform's line separator.
RECURSIVE TextWrite(_, _)
TextWrite(text, linesep) ==
    IF text = <<>> THEN <<>>
    ELSE IF Head(text) = "LF" /\ linesep = "CRLF"
    THEN <<"CR", "LF">> \o TextWrite(Tail(text), linesep)
    ELSE <<Head(text)>> \o TextWrite(Tail(text), linesep)

\* f.read() on a file opened in text mode (universal newlines): "\r\n" and
\* a lone "\r" are read as "\n".
RECURSIVE TextRead(_)
TextRead(data) ==
    IF data = <<>> THEN <<>>
    ELSE IF Head(data) = "CR"
    THEN IF Len(data) >= 2 /\ data[2] = "LF"
         THEN <<"LF">> \o TextRead(SubSeq(data, 3, Len(data)))
         ELSE <<"LF">> \o TextRead(Tail(data))
    ELSE <<Head(data)>> \o TextRead(Tail(data))

\* PageCache.save: the page files after the call.
PageCache_save(files, url, text, linesep) ==
    [files EXCEPT ![hash_url(url)] = File(TextWrite(text, linesep))]

\* PageCache.load: the cached text, None when there is no file.
PageCache_load(files, url) ==
    LET path == hash_url(url)
    IN IF files[path].exists THEN Some(TextRead(files[path].data)) ELSE None

\* ------------------------------------------------- src/src/embedding.py
\* sklearn's cosine_similarity of two vectors as the exact fraction
\* sign(a.b) * (a.b)^2 / (|a|^2 |b|^2), which orders pairs as the cosine
\* does; 0 when a vector is all-zero.
Dot(a, b) == a[1] * b[1] + a[2] * b[2]

cosine_similarity(a, b) ==
    LET d == Dot(a, b)
        n == Dot(a, a) * Dot(b, b)
    IN IF n = 0 THEN [num |-> 0, den |-> 1]
       ELSE [num |-> (IF d < 0 THEN -1 ELSE 1) * d * d, den |-> n]

SimLess(s, t) == s.num * t.den < t.num * s.den

SimEq(s, t) == s.num * t.den = t.num * s.den

\* scored.sort(reverse=True, key=lambda x: x[0]): the positions of link_data
\* by descending lexical score, equal scores in their original order.
RECURSIVE InsertByScore(_, _, _, _)
InsertByScore(i, sorted, link_data, query) ==
    IF sorted = <<>> THEN <<i>>
    ELSE IF naive_relevance_score(link_data[Head(sorted)].context, query)
              < naive_relevance_score(link_data[i].context, query)
    THEN <<i>> \o sorted
    ELSE <<Head(sorted)>> \o InsertByScore(i, Tail(sorted), link_data, query)

RECURSIVE SortByScore(_, _, _)
SortByScore(n, link_data, query) ==
    IF n = 0 THEN <<>>
    ELSE InsertByScore(n, SortByScore(n - 1, link_data, query), link_data, query)

Scored(link_data, query) == SortByScore(Len(link_data), link_data, query)

\* BackfillFrom without the break at min_links.
RECURSIVE BackfillFromNoBreak(_, _, _, _, _)
BackfillFromNoBreak(i, selected, selected_urls, link_data, min_links) ==
    IF i > Len(link_data) THEN selected
    ELSE IF link_data[i].url \notin selected_urls
    THEN BackfillFromNoBreak(i + 1, Append(selected, i), selected_urls,
                             link_data, min_links)
    ELSE BackfillFromNoBreak(i + 1, selected, selected_urls, link_data,
                             min_links)

\* The backfill loop from position i of link_data on.
RECURSIVE BackfillFrom(_, _, _, _, _)
BackfillFrom(i, selected, selected_urls, link_data, min_links) ==
    IF i > Len(link_data) THEN selected
    ELSE IF link_data[i].url \notin selected_urls
    THEN IF Len(selected) + 1 >= min_links THEN Append(selected, i)
         ELSE BackfillFrom(i + 1, Append(selected, i), selected_urls,
                           link_data, min_links)
    ELSE BackfillFrom(i + 1, selected, selected_urls, link_data, min_links)

\* PrefixSelection with no unit of the budget kept for the query.
PrefixSelectionNoReserve(link_data, query, budget) ==
    SliceTo(Scored(link_data, query), budget)

\* The links taken by lexical score, before the backfill.
PrefixSelection(link_data, query, budget) ==
    LET max_docs == budget - 1
    IN SliceTo(Scored(link_data, query), max_docs)

\* SelectLinks with the backfill left out.
SelectLinksNoBackfill(link_data, query, budget, min_links) ==
    PrefixSelection(link_data, query, budget)

\* selected_links as positions of link_data: the prefix, backfilled when it
\* is shorter than min_links.
SelectLinks(link_data, query, budget, min_links) ==
    LET prefix == PrefixSelection(link_data, query, budget)
        selected_urls == {link_data[i].url : i \in Range(prefix)}
    IN IF Len(prefix) < min_links
       THEN BackfillFrom(1, prefix, selected_urls, link_data, min_links)
       ELSE prefix

\* Python's order on the (score, url) tuples.
TupleLess(a, b) ==
    \/ SimLess(a.score, b.score)
    \/ SimEq(a.score, b.score) /\ a.url < b.url

\* sorted(scored_links, reverse=True).
RECURSIVE InsertReverse(_, _)
InsertReverse(x, sorted) ==
    IF sorted = <<>> THEN <<x>>
    ELSE IF TupleLess(Head(sorted), x) THEN <<x>> \o sorted
    ELSE <<Head(sorted)>> \o InsertReverse(x, Tail(sorted))

RECURSIVE SortedReverse(_)
SortedReverse(s) ==
    IF s = <<>> THEN <<>>
    ELSE InsertReverse(s[Len(s)], SortedReverse(SubSeq(s, 1, Len(s) - 1)))

\* TopLinks with the cut to top_k left out.
TopLinksNoCut(scored_links, top_k) == SortedReverse(scored_links)

TopLinks(scored_links, top_k) == SliceTo(SortedReverse(scored_links), top_k)

\* The exceptions the body of rank_links_by_query_relevance raises, one for
\* each except clause: ResourceExhausted reaches the last, except Exception.
EXCEPTIONS == {"ResourceExhausted", "Unauthorized", "Forbidden"}

\* RankExcept without the last clause, except Exception.
RankExceptReraise(e) ==
    IF e \in {"Unauthorized", "Forbidden"}
    THEN [kind |-> "return", value |-> <<>>]
    ELSE [kind |-> "raise", value |-> <<>>]

\* The except clauses: what the call does with an exception raised in its body.
RankExcept(e) ==
    IF e = "Unauthorized" THEN [kind |-> "return", value |-> <<>>]
    ELSE IF e = "Forbidden" THEN [kind |-> "return", value |-> <<>>]
    ELSE [kind |-> "return", value |-> <<>>]

\* ------------------------------------------------- src/src/rag_chain.py
\* delay counts seconds; a sleep is recorded in hundredths of a second.
InitialDelay == 1

max_delay == 60

QuotaWait == 60

MaxAttempts == 3

INVOKE_EXCEPTIONS == {"ResourceExhausted", "InternalServerError",
                      "Unauthorized", "DeadlineExceeded", "ValueError"}
ANSWERS == {"answer1", "answer2"}
\* random.uniform(0, 0.1 * delay), in hundredths of delay: both ends and the middle.
JITTERS == {0, 5, 10}

\* ExceptClause catching every exception as a server error.
ExceptClauseAllTransient(e) ==
    IF e = "ResourceExhausted" THEN "quota" ELSE "transient"

\* The except clause of safe_invoke that handles e.
ExceptClause(e) ==
    IF e = "ResourceExhausted" THEN "quota"
    ELSE IF e = "InternalServerError" THEN "transient"
    ELSE "other"

\* SleepTime with the base delay left out.
SleepTimeJitterOnly(delay, jitter) == jitter * delay

\* sleep_time = delay + jitter.
SleepTime(delay, jitter) == 100 * delay + jitter * delay

\* NextDelay without the doubling.
NextDelayFlat(delay) == Min(delay, max_delay)

\* delay = min(delay * 2, max_delay).
NextDelay(delay) == Min(delay * 2, max_delay)

\* for attempt in range(3) running one attempt too many.
HasNextAttemptOffByOne(attempt) == attempt <= MaxAttempts

\* for attempt in range(3): whether the loop runs again after `attempt` attempts.
HasNextAttempt(attempt) == attempt < MaxAttempts

ErrorResult(e) == [kind |-> "error", answer |-> e, context |-> <<>>]

FailedResult ==
    [kind |-> "failed", answer |-> "Failed to get a response", context |-> <<>>]

ChainResult(a) == [kind |-> "result", answer |-> a, context |-> <<"doc">>]

NoResult == [kind |-> "none", answer |-> "", context |-> <<>>]

\* ------------------------------------------ src/src/document_processor.py
\* The texts loader.load() returns for a page.
PAGES == SeqsUpTo({"a", "b"}, MaxTextLen)

\* The exceptions loader.load() raises.
FETCH_EXCEPTIONS == {"ConnectionError", "Timeout"}

\* A chunk: a Document with its page_content and its metadata source.
Chunk(url, piece) == [source |-> url, page_content |-> piece]

\* The text splitter on one text: windows of CHUNK_SIZE characters from left
\* to right, each starting CHUNK_SIZE - CHUNK_OVERLAP characters after the
\* one before; no window for the empty text.
RECURSIVE SplitFrom(_, _)
SplitFrom(text, start) ==
    IF start > Len(text) THEN <<>>
    ELSE LET end == Min(start + CHUNK_SIZE - 1, Len(text))
         IN <<SubSeq(text, start, end)>>
              \o (IF end = Len(text) THEN <<>>
                  ELSE SplitFrom(text, start + CHUNK_SIZE - CHUNK_OVERLAP))

\* self.text_splitter.split_documents on the document of url.
split_documents(url, text) ==
    LET pieces == SplitFrom(text, 1)
    IN [i \in 1..Len(pieces) |-> Chunk(url, pieces[i])]

\* open(path, "w") of PageCache.save: the file exists and is empty.
PageCache_open(files, url) == [files EXCEPT ![hash_url(url)] = File(<<>>)]

\* The bytes of a file after `new` is written at offset 0 of it.
WriteAt0(old, new) == new \o SubSeq(old, Len(new) + 1, Len(old))

\* f.write(text) and the close of PageCache.save: the buffered text is
\* written from the start of the file the open returned.
PageCache_write(files, url, text, linesep) ==
    [files EXCEPT ![hash_url(url)] =
        File(WriteAt0(files[hash_url(url)].data, TextWrite(text, linesep)))]

\* LoadExcept letting the exception out of load_single_url.
LoadExceptReraise(e) == [kind |-> "raise", chunks |-> <<>>]

\* The except clause of load_single_url: return [].
LoadExcept(e) == [kind |-> "return", chunks |-> <<>>]

\* Extend adding the chunks last first.
ExtendReversed(all_docs, chunks) ==
    all_docs \o [i \in 1..Len(chunks) |-> chunks[Len(chunks) + 1 - i]]

\* all_docs.extend(chunks).
Extend(all_docs, chunks) == all_docs \o chunks

VARIABLES
    TOTAL_EMBEDDING_BUDGET, \* config.py, fixed for the process
    embFiles,               \* cache/embeddings: key -> file
    rank_pc,                \* "idle", "embed_query", "embed_docs", "done"
    query, link_data, top_k, min_links,      \* arguments of the rank call
    selected_links,         \* positions of link_data
    query_embedding,
    scored_links,           \* sequence of [score, url, link]
    embed_calls,            \* embedding calls issued by this invocation
    misses,                 \* URLs this invocation found uncached
    exc,                    \* the exception raised in the body, "none" if none
    top_links,              \* the sorted, cut scored_links of line 110
    outcome,                \* [kind, value] of the finished call
    linesep,                \* os.linesep of the platform: "LF" or "CRLF"
    pageFiles,              \* cache/pages: key -> file
    cache_op,               \* the last cache call and what it returned
    saved,                  \* per kind and URL, the payload last saved
    inv_pc,                 \* safe_invoke: "idle", "running", "done"
    attempt,                \* attempts made by this safe_invoke call
    delay,
    sleeps,                 \* the time.sleep calls made, in order
    trace,                  \* what each invoke_once did, in order
    inv_result,             \* what safe_invoke returned
    entry,                  \* the DocumentProcessor method called, "none" if none
    fetch_pc,               \* "idle", "running", "done"
    urls,                   \* the URLs of the call
    w_pc,                   \* per load_single_url call: "none", "load",
                            \* "fetch", "save", "write", "done"
    cached,                 \* what PageCache.load returned to it
    fetched,                \* its loader.load(): "none", "ok", "fail"
    full_text,              \* the text it fetched
    result,                 \* what it ended with: [kind, chunks]
    completed,              \* the futures as as_completed yielded them
    all_docs,
    fetch_outcome,          \* what the method ended with: [kind, chunks]
    prev_call,              \* the last finished direct load_single_url
    pipe_pc,                \* run_rag_pipeline: "idle", "step2" .. "step5",
                            \* "invoke", "done"
    source,                 \* its source argument, NoSource for None
    relevant_links,
    docs,
    db,                     \* vectorstore.db: "None" or "FAISS"
    pipe_result             \* how the run ended: [kind, answer, sources, exc]

rankVars == <<TOTAL_EMBEDDING_BUDGET, embFiles, rank_pc, query, link_data,
              top_k, min_links, selected_links, query_embedding,
              scored_links, embed_calls, misses, exc, top_links,
              outcome>>

cacheVars == <<linesep, pageFiles, cache_op, saved>>

invVars == <<inv_pc, attempt, delay, sleeps, trace, inv_result>>

fetchVars == <<entry, fetch_pc, urls, w_pc, cached, fetched, full_text, result,
               completed, all_docs, fetch_outcome, prev_call>>

pipeVars == <<pipe_pc, source, relevant_links, docs, db, pipe_result>>

vars == <<rankVars, cacheVars, invVars, fetchVars, pipeVars>>

NoOutcome == [kind |-> "none", value |-> <<>>]

KINDS == {"page", "embedding"}

NoOp == [op |-> "none", kind |-> "none", url |-> 0, result |-> None]

\* The ranker before its first call.
RankIdle ==
    /\ rank_pc = "idle"
    /\ query = <<>>
    /\ link_data = <<>>
    /\ top_k = 0
    /\ min_links = 0
    /\ selected_links = <<>>
    /\ query_embedding = <<>>
    /\ scored_links = <<>>
    /\ embed_calls = 0
    /\ misses = <<>>
    /\ exc = "none"
    /\ top_links = <<>>
    /\ outcome = NoOutcome

\* The cache directories as CacheManager.initialize leaves them on a first run.
CacheEmpty ==
    /\ embFiles = [k \in KEYS |-> NoFile]
    /\ pageFiles = [k \in KEYS |-> NoFile]
    /\ cache_op = NoOp
    /\ saved = [x \in KINDS \X URLS |-> None]

\* RAGChain before its first invoke.
InvokeIdle ==
    /\ inv_pc = "idle"
    /\ attempt = 0
    /\ delay = InitialDelay
    /\ sleeps = <<>>
    /\ trace = <<>>
    /\ inv_result = NoResult

\* The slots of the load_single_url calls of one method call.  MaxUrls is
\* below MAX_WORKERS = 5 of config.py: the pool runs every call at once.
W == 1..MaxUrls

NoChunks == [kind |-> "none", chunks |-> <<>>]

NoCall == [url |-> 0, fetched |-> "none"]

\* No call of load_single_url in progress.
NoWorkers ==
    /\ w_pc = [w \in W |-> "none"]
    /\ cached = [w \in W |-> None]
    /\ fetched = [w \in W |-> "none"]
    /\ full_text = [w \in W |-> <<>>]
    /\ result = [w \in W |-> NoChunks]
    /\ completed = <<>>
    /\ all_docs = <<>>
    /\ fetch_outcome = NoChunks

\* The DocumentProcessor before its first call.
FetchIdle ==
    /\ entry = "none"
    /\ fetch_pc = "idle"
    /\ urls = <<>>
    /\ NoWorkers
    /\ prev_call = NoCall

\* run_rag_pipeline called with no source: main.py line 23.
NoSource == 0

NoRun == [kind |-> "none", answer |-> "", sources |-> <<>>, exc |-> "none"]

\* main.py before the first query.
PipelineIdle ==
    /\ pipe_pc = "idle"
    /\ source = NoSource
    /\ relevant_links = <<>>
    /\ docs = <<>>
    /\ db = "None"
    /\ pipe_result = NoRun

Init ==
    /\ TOTAL_EMBEDDING_BUDGET \in 0..MaxBudget
    /\ linesep \in {"LF", "CRLF"}
    /\ RankIdle
    /\ CacheEmpty
    /\ InvokeIdle
    /\ FetchIdle
    /\ PipelineIdle

InitRank == Init /\ linesep = "LF"

InitCache == Init /\ TOTAL_EMBEDDING_BUDGET = MaxBudget

InitInvoke == Init /\ linesep = "LF" /\ TOTAL_EMBEDDING_BUDGET = MaxBudget

InitFetch == Init /\ linesep = "LF" /\ TOTAL_EMBEDDING_BUDGET = MaxBudget

InitPipeline == Init /\ linesep = "LF" /\ TOTAL_EMBEDDING_BUDGET = MaxBudget

\* rank_links_by_query_relevance up to the query embedding: lines 68-88.
RankCall(q, ld, k, m) ==
    /\ rank_pc = "idle"
    /\ rank_pc' = "embed_query"
    /\ query' = q
    /\ link_data' = ld
    /\ top_k' = k
    /\ min_links' = m
    /\ selected_links' = SelectLinks(ld, q, TOTAL_EMBEDDING_BUDGET, m)
    /\ query_embedding' = <<>>
    /\ scored_links' = <<>>
    /\ embed_calls' = 0
    /\ misses' = <<>>
    /\ exc' = "none"
    /\ top_links' = <<>>
    /\ outcome' = NoOutcome
    /\ UNCHANGED <<linesep, pageFiles, cache_op, invVars, fetchVars, pipeVars>>
    /\ UNCHANGED <<TOTAL_EMBEDDING_BUDGET, saved, embFiles>>

\* self.embed_query(query) returns v: line 90.
EmbedQueryOk(v) ==
    /\ rank_pc = "embed_query"
    /\ rank_pc' = "embed_docs"
    /\ query_embedding' = v
    /\ embed_calls' = embed_calls + 1
    /\ UNCHANGED <<linesep, pageFiles, cache_op, invVars, fetchVars, pipeVars>>
    /\ UNCHANGED <<TOTAL_EMBEDDING_BUDGET, saved, embFiles, query, link_data, top_k,
                   min_links, selected_links, scored_links, misses, exc,
                   top_links, outcome>>

\* self.embed_query(query) raises exc, which the except clauses handle.
EmbedQueryFail(e) ==
    /\ rank_pc = "embed_query"
    /\ rank_pc' = "done"
    /\ embed_calls' = embed_calls + 1
    /\ exc' = e
    /\ outcome' = RankExcept(e)
    /\ UNCHANGED <<linesep, pageFiles, cache_op, invVars, fetchVars, pipeVars>>
    /\ UNCHANGED <<TOTAL_EMBEDDING_BUDGET, saved, embFiles, query, link_data, top_k,
                   min_links, selected_links, query_embedding, scored_links,
                   misses, top_links>>

\* The link the loop of line 94 is at.
CurrentLink == link_data[selected_links[Len(scored_links) + 1]]

InLoop == rank_pc = "embed_docs" /\ Len(scored_links) < Len(selected_links)

Scoring(emb) ==
    [score |-> cosine_similarity(query_embedding, emb),
     url |-> CurrentLink.url,
     link |-> selected_links[Len(scored_links) + 1]]

\* One iteration with the embedding in the cache: lines 96, 103-107.
DocCached ==
    /\ InLoop
    /\ EmbeddingCache_load(embFiles, CurrentLink.url) # None
    /\ scored_links' =
         Append(scored_links,
                Scoring(EmbeddingCache_load(embFiles, CurrentLink.url).val))
    /\ UNCHANGED <<linesep, pageFiles, cache_op, invVars, fetchVars, pipeVars>>
    /\ UNCHANGED <<TOTAL_EMBEDDING_BUDGET, saved, embFiles, rank_pc, query, link_data,
                   top_k, min_links, selected_links, query_embedding,
                   embed_calls, misses, exc, top_links, outcome>>

\* One iteration on a cache miss, embed_document returning v: lines 96-107.
DocEmbedOk(v) ==
    /\ InLoop
    /\ EmbeddingCache_load(embFiles, CurrentLink.url) = None
    /\ embed_calls' = embed_calls + 1
    /\ misses' = Append(misses, CurrentLink.url)
    /\ embFiles' = EmbeddingCache_save(embFiles, CurrentLink.url, v)
    /\ saved' = [saved EXCEPT ![<<"embedding", CurrentLink.url>>] = Some(v)]
    /\ scored_links' = Append(scored_links, Scoring(v))
    /\ UNCHANGED <<linesep, pageFiles, cache_op, invVars, fetchVars, pipeVars>>
    /\ UNCHANGED <<TOTAL_EMBEDDING_BUDGET, rank_pc, query, link_data, top_k,
                   min_links, selected_links, query_embedding, exc, top_links,
                   outcome>>

\* One iteration on a cache miss, embed_document raising exc.
DocEmbedFail(e) ==
    /\ InLoop
    /\ EmbeddingCache_load(embFiles, CurrentLink.url) = None
    /\ embed_calls' = embed_calls + 1
    /\ misses' = Append(misses, CurrentLink.url)
    /\ rank_pc' = "done"
    /\ exc' = e
    /\ outcome' = RankExcept(e)
    /\ UNCHANGED <<linesep, pageFiles, cache_op, invVars, fetchVars, pipeVars>>
    /\ UNCHANGED <<TOTAL_EMBEDDING_BUDGET, saved, embFiles, query, link_data, top_k,
                   min_links, selected_links, query_embedding, scored_links,
                   top_links>>

\* The final sort and the return: lines 110-111.
RankReturn ==
    /\ rank_pc = "embed_docs"
    /\ Len(scored_links) = Len(selected_links)
    /\ rank_pc' = "done"
    /\ top_links' = TopLinks(scored_links, top_k)
    /\ outcome' = [kind |-> "return",
                   value |-> [i \in 1..Len(top_links') |-> top_links'[i].url]]
    /\ UNCHANGED <<linesep, pageFiles, cache_op, invVars, fetchVars, pipeVars>>
    /\ UNCHANGED <<TOTAL_EMBEDDING_BUDGET, saved, embFiles, query, link_data, top_k,
                   min_links, selected_links, query_embedding, scored_links,
                   embed_calls, misses, exc>>

\* The caller (run_rag_pipeline) has taken the result; the next query comes.
RankDone ==
    /\ rank_pc = "done"
    /\ rank_pc' = "idle"
    /\ query' = <<>>
    /\ link_data' = <<>>
    /\ top_k' = 0
    /\ min_links' = 0
    /\ selected_links' = <<>>
    /\ query_embedding' = <<>>
    /\ scored_links' = <<>>
    /\ embed_calls' = 0
    /\ misses' = <<>>
    /\ exc' = "none"
    /\ top_links' = <<>>
    /\ outcome' = NoOutcome
    /\ UNCHANGED <<linesep, pageFiles, cache_op, invVars, fetchVars, pipeVars>>
    /\ UNCHANGED <<TOTAL_EMBEDDING_BUDGET, saved, embFiles>>

NextRank ==
    \/ \E q \in QUERIES, ld \in SeqsUpTo(LINKS, MaxLinks),
          k \in 0..MaxTopK, m \in 0..MaxMinLinks : RankCall(q, ld, k, m)
    \/ \E v \in VECTORS : EmbedQueryOk(v)
    \/ \E e \in EXCEPTIONS : EmbedQueryFail(e)
    \/ DocCached
    \/ \E v \in VECTORS : DocEmbedOk(v)
    \/ \E e \in EXCEPTIONS : DocEmbedFail(e)
    \/ RankReturn
    \/ RankDone

\* A deterministic embedding provider: self.embeddings.embed_query(text) of
\* lines 33 and 50 returns one vector per text, the same at every call.
embeddings_embed_query(text) ==
    IF text = <<"pay">> THEN <<1, 1>> ELSE <<1, 0>>

\* self.embed_query(query) against the deterministic provider: line 90.
EmbedQueryDet ==
    rank_pc = "embed_query" /\ EmbedQueryOk(embeddings_embed_query(query))

\* self.embed_document(link["context"]) against the deterministic provider:
\* line 100.
DocEmbedDet == InLoop /\ DocEmbedOk(embeddings_embed_query(CurrentLink.context))

\* rank_links_by_query_relevance, called again and again on one cache
\* directory, the provider deterministic and never failing.
NextRankDet ==
    \/ \E q \in QUERIES, ld \in SeqsUpTo(LINKS, MaxLinks),
          k \in 0..MaxTopK, m \in 0..MaxMinLinks : RankCall(q, ld, k, m)
    \/ EmbedQueryDet
    \/ DocCached
    \/ DocEmbedDet
    \/ RankReturn
    \/ RankDone

\* ------------------------------------------------------------ the caches
\* What a cache call made outside the ranker leaves alone.
rankLocals == <<TOTAL_EMBEDDING_BUDGET, rank_pc, query, link_data, top_k,
                min_links, selected_links, query_embedding, scored_links,
                embed_calls, misses, exc, top_links, outcome>>

\* PageCache.save(url, text).
PageSave(url, text) ==
    /\ pageFiles' = PageCache_save(pageFiles, url, text, linesep)
    /\ saved' = [saved EXCEPT ![<<"page", url>>] = Some(text)]
    /\ cache_op' = [op |-> "save", kind |-> "page", url |-> url, result |-> None]
    /\ UNCHANGED <<linesep, embFiles, rankLocals, invVars, fetchVars, pipeVars>>

\* PageCache.load(url).
PageLoad(url) ==
    /\ cache_op' = [op |-> "load", kind |-> "page", url |-> url,
                    result |-> PageCache_load(pageFiles, url)]
    /\ UNCHANGED <<linesep, pageFiles, embFiles, saved, rankLocals, invVars, fetchVars, pipeVars>>

\* EmbeddingCache.save(url, embedding).
EmbSave(url, embedding) ==
    /\ embFiles' = EmbeddingCache_save(embFiles, url, embedding)
    /\ saved' = [saved EXCEPT ![<<"embedding", url>>] = Some(embedding)]
    /\ cache_op' = [op |-> "save", kind |-> "embedding", url |-> url,
                    result |-> None]
    /\ UNCHANGED <<linesep, pageFiles, rankLocals, invVars, fetchVars, pipeVars>>

\* EmbeddingCache.load(url).
EmbLoad(url) ==
    /\ cache_op' = [op |-> "load", kind |-> "embedding", url |-> url,
                    result |-> EmbeddingCache_load(embFiles, url)]
    /\ UNCHANGED <<linesep, pageFiles, embFiles, saved, rankLocals, invVars, fetchVars, pipeVars>>

TEXTS == SeqsUpTo(CHARS, MaxTextLen)

EMBEDDINGS == VECTORS \cup {<<>>}

NextCache ==
    \/ \E u \in URLS, t \in TEXTS : PageSave(u, t)
    \/ \E u \in URLS : PageLoad(u)
    \/ \E u \in URLS, v \in EMBEDDINGS : EmbSave(u, v)
    \/ \E u \in URLS : EmbLoad(u)


\* ------------------------------------------------------------ safe_invoke
\* RAGChain.invoke(query): safe_invoke up to its loop, lines 88-89.
SafeInvokeCall ==
    /\ inv_pc = "idle"
    /\ inv_pc' = "running"
    /\ attempt' = 0
    /\ delay' = InitialDelay
    /\ sleeps' = <<>>
    /\ trace' = <<>>
    /\ inv_result' = NoResult
    /\ UNCHANGED <<rankVars, cacheVars, fetchVars, pipeVars>>

\* One iteration whose invoke_once returns: lines 91-98.
InvokeOnceReturns(a) ==
    /\ inv_pc = "running"
    /\ attempt' = attempt + 1
    /\ trace' = Append(trace, [out |-> "ok", val |-> a])
    /\ inv_result' = ChainResult(a)
    /\ inv_pc' = "done"
    /\ UNCHANGED <<delay, sleeps, rankVars, cacheVars, fetchVars, pipeVars>>

\* One iteration whose invoke_once raises e, with what follows it: the sleep
\* and the next iteration, or the return: lines 91-125.
InvokeOnceRaises(e, jitter) ==
    /\ inv_pc = "running"
    /\ attempt' = attempt + 1
    /\ trace' = Append(trace, [out |-> e, val |-> ""])
    /\ sleeps' = CASE ExceptClause(e) = "quota" -> Append(sleeps, 100 * QuotaWait)
                   [] ExceptClause(e) = "transient"
                        -> Append(sleeps, SleepTime(delay, jitter))
                   [] OTHER -> sleeps
    /\ delay' = IF ExceptClause(e) = "transient" THEN NextDelay(delay) ELSE delay
    /\ IF ExceptClause(e) = "other"
       THEN inv_pc' = "done" /\ inv_result' = ErrorResult(e)
       ELSE IF HasNextAttempt(attempt + 1)
       THEN inv_pc' = "running" /\ inv_result' = inv_result
       ELSE inv_pc' = "done" /\ inv_result' = FailedResult
    /\ UNCHANGED <<rankVars, cacheVars, fetchVars, pipeVars>>

\* The caller has taken the result; the next query comes.
InvokeDone ==
    /\ inv_pc = "done"
    /\ inv_pc' = "idle"
    /\ attempt' = 0
    /\ delay' = InitialDelay
    /\ sleeps' = <<>>
    /\ trace' = <<>>
    /\ inv_result' = NoResult
    /\ UNCHANGED <<rankVars, cacheVars, fetchVars, pipeVars>>

NextInvoke ==
    \/ SafeInvokeCall
    \/ \E a \in ANSWERS : InvokeOnceReturns(a)
    \/ \E e \in INVOKE_EXCEPTIONS, j \in JITTERS : InvokeOnceRaises(e, j)
    \/ InvokeDone

\* ----------------------------------------------------- DocumentProcessor
\* What a call of the document processor leaves alone.
fetchOthers == <<rankVars, invVars, linesep, cache_op, pipeVars>>

\* The calls of load_single_url started with the URLs us, one per URL.
Submitted(us) ==
    /\ urls' = us
    /\ w_pc' = [w \in W |-> IF w <= Len(us) THEN "load" ELSE "none"]
    /\ cached' = [w \in W |-> None]
    /\ fetched' = [w \in W |-> "none"]
    /\ full_text' = [w \in W |-> <<>>]
    /\ result' = [w \in W |-> NoChunks]
    /\ completed' = <<>>
    /\ all_docs' = <<>>
    /\ fetch_outcome' = NoChunks

\* load_and_split_documents_parallel(urls) up to the submits: lines 69-73.
FetchAllCall(us) ==
    /\ fetch_pc = "idle"
    /\ fetch_pc' = "running"
    /\ entry' = "load_and_split_documents_parallel"
    /\ Submitted(us)
    /\ prev_call' = NoCall
    /\ UNCHANGED <<fetchOthers, pageFiles, saved>>

\* run_rag_pipeline calls load_single_url(source) itself: main.py line 67.
FetchOneCall(u) ==
    /\ fetch_pc = "idle"
    /\ fetch_pc' = "running"
    /\ entry' = "load_single_url"
    /\ Submitted(<<u>>)
    /\ UNCHANGED <<fetchOthers, pageFiles, saved, prev_call>>

\* load_single_url, the cache check: lines 34-38.
CacheCheck(w) ==
    /\ w_pc[w] = "load"
    /\ LET c == PageCache_load(pageFiles, urls[w])
       IN /\ cached' = [cached EXCEPT ![w] = c]
          /\ IF c.some /\ c.val # <<>>
             THEN /\ w_pc' = [w_pc EXCEPT ![w] = "done"]
                  /\ result' = [result EXCEPT ![w] =
                        [kind |-> "return",
                         chunks |-> split_documents(urls[w], c.val)]]
             ELSE /\ w_pc' = [w_pc EXCEPT ![w] = "fetch"]
                  /\ result' = result
    /\ UNCHANGED <<fetchOthers, pageFiles, saved, prev_call,
                   entry, fetch_pc, urls, fetched, full_text, completed,
                   all_docs, fetch_outcome>>

\* loader.load() returns the page: lines 42-47.
LoaderLoadOk(w, text) ==
    /\ w_pc[w] = "fetch"
    /\ w_pc' = [w_pc EXCEPT ![w] = "save"]
    /\ fetched' = [fetched EXCEPT ![w] = "ok"]
    /\ full_text' = [full_text EXCEPT ![w] = text]
    /\ UNCHANGED <<fetchOthers, pageFiles, saved, prev_call,
                   entry, fetch_pc, urls, cached, result, completed, all_docs,
                   fetch_outcome>>

\* loader.load() raises e: lines 42-44, 55-57.
LoaderLoadFail(w, e) ==
    /\ w_pc[w] = "fetch"
    /\ w_pc' = [w_pc EXCEPT ![w] = "done"]
    /\ fetched' = [fetched EXCEPT ![w] = "fail"]
    /\ result' = [result EXCEPT ![w] = LoadExcept(e)]
    /\ UNCHANGED <<fetchOthers, pageFiles, saved, prev_call,
                   entry, fetch_pc, urls, cached, full_text, completed, all_docs,
                   fetch_outcome>>

\* PageCache.save(url, full_text) up to the open: cache_manager.py lines 31-33.
SaveOpen(w) ==
    /\ w_pc[w] = "save"
    /\ w_pc' = [w_pc EXCEPT ![w] = "write"]
    /\ pageFiles' = PageCache_open(pageFiles, urls[w])
    /\ UNCHANGED <<fetchOthers, saved, prev_call, entry, fetch_pc, urls,
                   cached, fetched, full_text, result, completed, all_docs,
                   fetch_outcome>>

\* The write and the close of PageCache.save, then the split and the return
\* of load_single_url: cache_manager.py lines 34-35, lines 51-53.
SaveWrite(w) ==
    /\ w_pc[w] = "write"
    /\ w_pc' = [w_pc EXCEPT ![w] = "done"]
    /\ pageFiles' = PageCache_write(pageFiles, urls[w], full_text[w], linesep)
    /\ saved' = [saved EXCEPT ![<<"page", urls[w]>>] = Some(full_text[w])]
    /\ result' = [result EXCEPT ![w] =
          [kind |-> "return",
           chunks |-> split_documents(urls[w], full_text[w])]]
    /\ UNCHANGED <<fetchOthers, prev_call, entry, fetch_pc,
                   urls, cached, fetched, full_text, completed, all_docs,
                   fetch_outcome>>

\* One iteration of the as_completed loop, on the finished future w:
\* lines 75-82.
Collect(w) ==
    /\ entry = "load_and_split_documents_parallel"
    /\ fetch_pc = "running"
    /\ w_pc[w] = "done"
    /\ w \notin Range(completed)
    /\ completed' = Append(completed, w)
    /\ all_docs' = IF result[w].kind = "return"
                   THEN Extend(all_docs, result[w].chunks)
                   ELSE all_docs
    /\ UNCHANGED <<fetchOthers, pageFiles, saved, prev_call,
                   entry, fetch_pc, urls, w_pc, cached, fetched, full_text,
                   result, fetch_outcome>>

\* The return of load_and_split_documents_parallel: lines 84-85.
FetchAllReturn ==
    /\ entry = "load_and_split_documents_parallel"
    /\ fetch_pc = "running"
    /\ Len(completed) = Len(urls)
    /\ fetch_pc' = "done"
    /\ fetch_outcome' = [kind |-> "return", chunks |-> all_docs]
    /\ UNCHANGED <<fetchOthers, pageFiles, saved, prev_call,
                   entry, urls, w_pc, cached, fetched, full_text, result,
                   completed, all_docs>>

\* The direct load_single_url has ended.
FetchOneReturn ==
    /\ entry = "load_single_url"
    /\ fetch_pc = "running"
    /\ w_pc[1] = "done"
    /\ fetch_pc' = "done"
    /\ fetch_outcome' = result[1]
    /\ UNCHANGED <<fetchOthers, pageFiles, saved, prev_call,
                   entry, urls, w_pc, cached, fetched, full_text, result,
                   completed, all_docs>>

\* run_rag_pipeline has taken the chunks; the next query comes.
FetchDone ==
    /\ fetch_pc = "done"
    /\ fetch_pc' = "idle"
    /\ entry' = "none"
    /\ prev_call' = IF entry = "load_single_url"
                    THEN [url |-> urls[1], fetched |-> fetched[1]]
                    ELSE NoCall
    /\ Submitted(<<>>)
    /\ UNCHANGED <<fetchOthers, pageFiles, saved>>

NextFetch ==
    \/ \E us \in SeqsUpTo(URLS, MaxUrls) : FetchAllCall(us)
    \/ \E u \in URLS : FetchOneCall(u)
    \/ \E w \in W : CacheCheck(w)
    \/ \E w \in W, t \in PAGES : LoaderLoadOk(w, t)
    \/ \E w \in W, e \in FETCH_EXCEPTIONS : LoaderLoadFail(w, e)
    \/ \E w \in W : SaveOpen(w)
    \/ \E w \in W : SaveWrite(w)
    \/ \E w \in W : Collect(w)
    \/ FetchAllReturn
    \/ FetchOneReturn
    \/ FetchDone

\* ------------------------------------------------------ run_rag_pipeline
\* config.py TOP_K_LINKS, scaled to the URL lists.
TOP_K_LINKS == Min(MaxTopK, MaxUrls)

\* The default of min_links, embedding.py line 55, scaled likewise.
DefaultMinLinks == MaxMinLinks

\* The exceptions FAISS.from_documents raises: it embeds the chunks through
\* the embedding API.
BUILD_EXCEPTIONS == {"ResourceExhausted"}

\* VectorStore.build_from_documents(docs), FAISS.from_documents succeeding:
\* self.db after the call, vectorstore.py lines 31-43.
build_from_documents(db0, ds) == IF ds = <<>> THEN db0 ELSE "FAISS"

\* VectorStore.as_retriever: vectorstore.py lines 55-61.
as_retriever(db0) ==
    IF db0 = "None" THEN [kind |-> "raise", exc |-> "ValueError"]
    ELSE [kind |-> "return", exc |-> "none"]

\* RAGChain.format_results: the answer and the source of each context
\* document, rag_chain.py lines 137-147.
format_results(res) ==
    [answer |-> res.answer,
     sources |-> [i \in 1..Len(res.context) |-> <<"source", res.context[i]>>]]

Raised(e) == [kind |-> "raise", answer |-> "", sources |-> <<>>, exc |-> e]

\* What a step of run_rag_pipeline itself leaves alone.
pipeOthers == <<rankVars, cacheVars, invVars, fetchVars>>

\* run_rag_pipeline(query, source) with a source: main.py lines 34-44.
PipelineCallSource(src) ==
    /\ pipe_pc = "idle"
    /\ pipe_pc' = "step3"
    /\ source' = src
    /\ relevant_links' = <<src>>
    /\ UNCHANGED <<pipeOthers, docs, db, pipe_result>>

\* run_rag_pipeline(query) with no source, up to step 2: main.py lines 34-55.
PipelineCall ==
    /\ pipe_pc = "idle"
    /\ pipe_pc' = "step2"
    /\ UNCHANGED <<pipeOthers, source, relevant_links, docs, db, pipe_result>>

\* The call of rank_links_by_query_relevance on the links extracted from the
\* main pages: main.py lines 46-57.
PipelineRankCall(q, all_links) ==
    /\ pipe_pc = "step2"
    /\ RankCall(q, all_links, TOP_K_LINKS, DefaultMinLinks)

\* The ranker has returned: main.py lines 56-58.  exc keeps what the ranker
\* caught.
PipelineRanked ==
    /\ pipe_pc = "step2"
    /\ rank_pc = "done"
    /\ IF outcome.kind = "return"
       THEN /\ pipe_pc' = "step3"
            /\ relevant_links' = outcome.value
            /\ pipe_result' = pipe_result
       ELSE /\ pipe_pc' = "done"
            /\ relevant_links' = relevant_links
            /\ pipe_result' = Raised(exc)
    /\ rank_pc' = "idle"
    /\ query' = <<>>
    /\ link_data' = <<>>
    /\ top_k' = 0
    /\ min_links' = 0
    /\ selected_links' = <<>>
    /\ query_embedding' = <<>>
    /\ scored_links' = <<>>
    /\ embed_calls' = 0
    /\ misses' = <<>>
    /\ top_links' = <<>>
    /\ outcome' = NoOutcome
    /\ UNCHANGED <<TOTAL_EMBEDDING_BUDGET, embFiles, exc, cacheVars, invVars,
                   fetchVars, source, docs, db>>

\* Step 3, the call of the document processor: main.py lines 63-70.
PipelineLoadCall ==
    /\ pipe_pc = "step3"
    /\ IF source # NoSource
       THEN FetchOneCall(source)
       ELSE FetchAllCall(relevant_links)

\* The document processor has returned: main.py lines 67, 70.
PipelineLoaded ==
    /\ pipe_pc = "step3"
    /\ fetch_pc = "done"
    /\ IF fetch_outcome.kind = "return"
       THEN /\ pipe_pc' = "step4"
            /\ docs' = fetch_outcome.chunks
            /\ pipe_result' = pipe_result
       ELSE /\ pipe_pc' = "done"
            /\ docs' = docs
            /\ pipe_result' = Raised("Exception")
    /\ fetch_pc' = "idle"
    /\ entry' = "none"
    /\ prev_call' = IF entry = "load_single_url"
                    THEN [url |-> urls[1], fetched |-> fetched[1]]
                    ELSE NoCall
    /\ Submitted(<<>>)
    /\ UNCHANGED <<rankVars, cacheVars, invVars, source, relevant_links, db>>

\* Step 4, VectorStore() and build_from_documents(docs) returning:
\* main.py lines 75-76.
BuildFromDocuments ==
    /\ pipe_pc = "step4"
    /\ pipe_pc' = "step5"
    /\ db' = build_from_documents("None", docs)
    /\ UNCHANGED <<pipeOthers, source, relevant_links, docs, pipe_result>>

\* Step 4, FAISS.from_documents raising e, which build_from_documents
\* raises again: vectorstore.py lines 36-41.
BuildFromDocumentsFail(e) ==
    /\ pipe_pc = "step4"
    /\ docs # <<>>
    /\ pipe_pc' = "done"
    /\ pipe_result' = Raised(e)
    /\ UNCHANGED <<pipeOthers, source, relevant_links, docs, db>>

\* Step 5, RAGChain(vectorstore): rag_chain.py lines 25-27, main.py line 81.
RAGChainInit ==
    /\ pipe_pc = "step5"
    /\ IF as_retriever(db).kind = "raise"
       THEN /\ pipe_pc' = "done"
            /\ pipe_result' = Raised(as_retriever(db).exc)
       ELSE /\ pipe_pc' = "invoke"
            /\ pipe_result' = pipe_result
    /\ UNCHANGED <<pipeOthers, source, relevant_links, docs, db>>

\* rag_chain.invoke(query): main.py line 82.
PipelineInvokeCall ==
    /\ pipe_pc = "invoke"
    /\ SafeInvokeCall

\* invoke has returned; format_results and the return: main.py lines 82-94.
PipelineReturn ==
    /\ pipe_pc = "invoke"
    /\ inv_pc = "done"
    /\ pipe_pc' = "done"
    /\ pipe_result' = [kind |-> "return",
                       answer |-> format_results(inv_result).answer,
                       sources |-> format_results(inv_result).sources,
                       exc |-> "none"]
    /\ inv_pc' = "idle"
    /\ attempt' = 0
    /\ delay' = InitialDelay
    /\ sleeps' = <<>>
    /\ trace' = <<>>
    /\ inv_result' = NoResult
    /\ UNCHANGED <<rankVars, cacheVars, fetchVars, source, relevant_links,
                   docs, db>>

\* One run of run_rag_pipeline on fresh cache directories, with the calls it
\* makes.
NextPipeline ==
    \/ \E src \in URLS : PipelineCallSource(src)
    \/ PipelineCall
    \/ \E q \in QUERIES, ld \in SeqsUpTo(LINKS, MaxLinks) : PipelineRankCall(q, ld)
    \/ \E v \in VECTORS : EmbedQueryOk(v)
    \/ \E e \in EXCEPTIONS : EmbedQueryFail(e)
    \/ DocCached
    \/ \E v \in VECTORS : DocEmbedOk(v)
    \/ \E e \in EXCEPTIONS : DocEmbedFail(e)
    \/ RankReturn
    \/ PipelineRanked
    \/ PipelineLoadCall
    \/ \E w \in W : CacheCheck(w)
    \/ \E w \in W, t \in PAGES : LoaderLoadOk(w, t)
    \/ \E w \in W, e \in FETCH_EXCEPTIONS : LoaderLoadFail(w, e)
    \/ \E w \in W : SaveOpen(w)
    \/ \E w \in W : SaveWrite(w)
    \/ \E w \in W : Collect(w)
    \/ FetchAllReturn
    \/ FetchOneReturn
    \/ PipelineLoaded
    \/ BuildFromDocuments
    \/ \E e \in BUILD_EXCEPTIONS : BuildFromDocumentsFail(e)
    \/ RAGChainInit
    \/ PipelineInvokeCall
    \/ \E a \in ANSWERS : InvokeOnceReturns(a)
    \/ \E e \in INVOKE_EXCEPTIONS, j \in JITTERS : InvokeOnceRaises(e, j)
    \/ PipelineReturn

Next == NextRank \/ NextCache \/ NextInvoke \/ NextFetch \/ NextPipeline

Spec == Init /\ [][Next]_vars

SpecRank == InitRank /\ [][NextRank]_vars

SpecRankDet == InitRank /\ [][NextRankDet]_vars

SpecCache == InitCache /\ [][NextCache]_vars

SpecInvoke == InitInvoke /\ [][NextInvoke]_vars

SpecFetch == InitFetch /\ [][NextFetch]_vars

SpecPipeline == InitPipeline /\ [][NextPipeline]_vars

\* ================================================================ claims
Returned == rank_pc = "done" /\ outcome.kind = "return"

Ranked == Returned /\ exc = "none"

DistinctUrls(ld) == {ld[i].url : i \in 1..Len(ld)}

\* C1 as stated, for the budgets that admit the query embedding: one
\* invocation of rank issues at most TOTAL_EMBEDDING_BUDGET embedding calls.
C1_CallsWithinBudget ==
    TOTAL_EMBEDDING_BUDGET >= 1 => embed_calls <= TOTAL_EMBEDDING_BUDGET

\* C1 amended: one invocation issues at most one call more than there are
\* candidates, and for a budget of at least 1 at most
\* max(TOTAL_EMBEDDING_BUDGET, min_links + 1) calls.
C1_CallsWithinBudgetOrFloor ==
    /\ embed_calls <= Len(link_data) + 1
    /\ TOTAL_EMBEDDING_BUDGET >= 1
         => embed_calls <= Max(TOTAL_EMBEDDING_BUDGET, min_links + 1)

C1_Witness ==
    /\ Ranked
    /\ TOTAL_EMBEDDING_BUDGET >= 1
    /\ embed_calls = min_links + 1
    /\ embed_calls > TOTAL_EMBEDDING_BUDGET

\* C2: with an empty candidate list rank returns the empty list and issues
\* no embedding call, the query embedding included.
C2_EmptyListNoCalls ==
    (rank_pc # "idle" /\ link_data = <<>>)
        => /\ embed_calls = 0
           /\ rank_pc = "done" => outcome = [kind |-> "return", value |-> <<>>]

\* C3: the returned list is in non-increasing similarity, and links of equal
\* similarity are in the order the lexical sort gave them.
LexPos(l) ==
    CHOOSE p \in 1..Len(link_data) : Scored(link_data, query)[p] = l

C3_SortedStable ==
    Ranked =>
        \A i, j \in 1..Len(top_links) :
            i < j =>
                /\ ~SimLess(top_links[i].score, top_links[j].score)
                /\ SimEq(top_links[i].score, top_links[j].score)
                     => LexPos(top_links[i].link) < LexPos(top_links[j].link)

\* C4: the returned list is no longer than top_k, and its URLs are those of
\* distinct candidates.
C4_PermutationSubset ==
    Returned =>
        /\ Len(outcome.value) <= top_k
        /\ \E f \in [1..Len(outcome.value) -> 1..Len(link_data)] :
              /\ \A i, j \in 1..Len(outcome.value) : i # j => f[i] # f[j]
              /\ \A i \in 1..Len(outcome.value) :
                    link_data[f[i]].url = outcome.value[i]

C4_Witness ==
    /\ Ranked
    /\ top_k >= 1
    /\ Len(outcome.value) = top_k
    /\ Len(selected_links) > top_k

\* C5 as stated, for a budget of at least 1: with at least min_links candidates, the selection that
\* reaches the embedding stage has at least min(min_links, N) links.
C5_SelectionFloor ==
    (rank_pc # "idle" /\ TOTAL_EMBEDDING_BUDGET >= 1
        /\ Len(link_data) >= min_links)
        => Len(selected_links) >= Min(min_links, Len(link_data))

\* C5 amended: with at least min_links distinct candidate URLs, the
\* selection that reaches the embedding stage has at least min_links links.
C5_SelectionFloorDistinct ==
    (rank_pc # "idle" /\ Cardinality(DistinctUrls(link_data)) >= min_links)
        => Len(selected_links) >= min_links

C5_Witness ==
    /\ rank_pc = "embed_query"
    /\ Cardinality(DistinctUrls(link_data)) >= min_links
    /\ Len(selected_links) = min_links
    /\ Len(PrefixSelection(link_data, query, TOTAL_EMBEDDING_BUDGET)) < min_links

\* C6: when the query embedding or a document embedding fails, rank returns
\* the empty list; it never raises.
C6_FailureReturnsEmpty ==
    /\ outcome.kind # "raise"
    /\ (rank_pc = "done" /\ exc # "none")
          => outcome = [kind |-> "return", value |-> <<>>]

C6_Witness ==
    /\ rank_pc = "done"
    /\ exc = "ResourceExhausted"
    /\ Len(scored_links) >= 1
    /\ outcome = [kind |-> "return", value |-> <<>>]

\* C7: a call that fails with InternalServerError twice and then succeeds
\* returns the success value after exactly 3 attempts, and the second sleep
\* is longer than the first.
TwoTransientThenSuccess ==
    /\ inv_pc = "done"
    /\ Len(trace) = 3
    /\ trace[1].out = "InternalServerError"
    /\ trace[2].out = "InternalServerError"
    /\ trace[3].out = "ok"

C7_RetryThenSuccess ==
    TwoTransientThenSuccess =>
        /\ inv_result = [kind |-> "result", answer |-> trace[3].val,
                         context |-> <<"doc">>]
        /\ attempt = 3
        /\ Len(sleeps) = 2
        /\ sleeps[2] > sleeps[1]

C7_Witness ==
    /\ TwoTransientThenSuccess
    /\ sleeps = <<110, 200>>
    /\ inv_result.answer = "answer2"

\* C8: a failure that is neither ResourceExhausted nor InternalServerError
\* ends the call at once: it is the last attempt, no sleep follows it, and
\* the error result is returned; when it is the first failure, there was
\* exactly one attempt and no sleep.
FATAL == {"Unauthorized", "DeadlineExceeded", "ValueError"}

C8_FatalNoRetry ==
    \A i \in 1..Len(trace) :
        trace[i].out \in FATAL =>
            /\ i = Len(trace)
            /\ attempt = i
            /\ Len(sleeps) = i - 1
            /\ inv_pc = "done"
            /\ inv_result = [kind |-> "error", answer |-> trace[i].out,
                             context |-> <<>>]

C8_Witness ==
    /\ inv_pc = "done"
    /\ trace = <<[out |-> "Unauthorized", val |-> ""]>>
    /\ attempt = 1
    /\ sleeps = <<>>
    /\ inv_result.kind = "error"

\* C9: safe_invoke makes at most 3 attempts and has returned after the
\* third; when no attempt succeeded, what it returns is an answer text with
\* an empty context.
NoSuccess == \A i \in 1..Len(trace) : trace[i].out # "ok"

C9_BoundedAttempts ==
    /\ attempt <= 3
    /\ Len(trace) = attempt
    /\ attempt = 3 => inv_pc = "done"
    /\ (inv_pc = "done" /\ NoSuccess)
          => /\ inv_result.kind \in {"error", "failed"}
             /\ inv_result.context = <<>>

C9_Witness ==
    /\ inv_pc = "done"
    /\ attempt = 3
    /\ trace[1].out = "ResourceExhausted"
    /\ trace[2].out = "InternalServerError"
    /\ trace[3].out = "ResourceExhausted"
    /\ inv_result.kind = "failed"

\* C10: a load returns what was last saved under the kind and URL, and
\* None for a URL never saved.
C10_RoundTrip ==
    cache_op.op = "load" => cache_op.result = saved[<<cache_op.kind, cache_op.url>>]

\* C13: a document embedding call is issued only for a URL whose embedding
\* no earlier call has computed and cached; it caches its result under the
\* URL; and a request for a URL whose embedding was computed and cached is
\* served with the cached vector, without a call and without a cache write.
LoopStep == InLoop /\ (scored_links' # scored_links \/ rank_pc' # rank_pc)

C13_NoRepay ==
    [][LoopStep =>
          LET u == CurrentLink.url
              s == saved[<<"embedding", u>>]
          IN /\ s.some =>
                   /\ embed_calls' = embed_calls
                   /\ embFiles' = embFiles
                   /\ scored_links' = Append(scored_links, Scoring(s.val))
             /\ embed_calls' # embed_calls =>
                   /\ ~s.some
                   /\ rank_pc' # "done" =>
                         /\ saved'[<<"embedding", u>>].some
                         /\ EmbeddingCache_load(embFiles', u)
                              = saved'[<<"embedding", u>>]
                         /\ scored_links' =
                              Append(scored_links,
                                     Scoring(saved'[<<"embedding", u>>].val))]_vars

\* An invocation that has scored a link and issued no document embedding
\* call: the vector came from an earlier invocation.
C13_Witness ==
    /\ rank_pc = "embed_docs"
    /\ Len(scored_links) >= 1
    /\ misses = <<>>
    /\ embed_calls = 1
    /\ saved[<<"embedding", scored_links[1].url>>].some

\* C14: the candidates are ordered by descending lexical score, equal scores
\* in their original order, and the selection before the backfill is the
\* first TOTAL_EMBEDDING_BUDGET - 1 of that order: all candidates when there
\* are fewer, none when TOTAL_EMBEDDING_BUDGET - 1 is zero or less.
StableDescending(order, ld, q) ==
    /\ Len(order) = Len(ld)
    /\ Range(order) = 1..Len(ld)
    /\ \A i, j \in 1..Len(order) :
          i < j =>
             \/ naive_relevance_score(ld[order[i]].context, q)
                  > naive_relevance_score(ld[order[j]].context, q)
             \/ /\ naive_relevance_score(ld[order[i]].context, q)
                     = naive_relevance_score(ld[order[j]].context, q)
                /\ order[i] < order[j]

C14_PrefixOfStableOrder ==
    rank_pc # "idle" =>
        LET order == Scored(link_data, query)
            want == Min(Max(TOTAL_EMBEDDING_BUDGET - 1, 0), Len(link_data))
        IN /\ StableDescending(order, link_data, query)
           /\ PrefixSelection(link_data, query, TOTAL_EMBEDDING_BUDGET)
                = SubSeq(order, 1, want)
           /\ Len(selected_links) >= want
           /\ SubSeq(selected_links, 1, want) = SubSeq(order, 1, want)
           /\ want >= min_links => selected_links = SubSeq(order, 1, want)

\* C15: rank ends on a quota failure of an embedding call only after that
\* call was attempted again: it has then issued more embedding calls than
\* the texts it asked an embedding for (the query and the uncached links).
C15_RetryBeforeAbort ==
    (rank_pc = "done" /\ exc = "ResourceExhausted")
        => embed_calls > 1 + Len(misses)

\* C16: the delay is min(2^t, 60) after t InternalServerError failures and
\* never above 60; a ResourceExhausted failure sleeps 60 seconds and leaves
\* the delay as it is; a sleep after InternalServerError lies between the
\* delay of that moment and 1.1 times it.
RECURSIVE Pow2(_)
Pow2(n) == IF n = 0 THEN 1 ELSE 2 * Pow2(n - 1)

TransientBefore(i) ==
    Cardinality({j \in 1..(i - 1) : trace[j].out = "InternalServerError"})

C16_DelaySchedule ==
    /\ delay = Min(Pow2(TransientBefore(Len(trace) + 1)), 60)
    /\ delay <= 60
    /\ Len(sleeps) <= Len(trace)
    /\ \A i \in 1..Len(sleeps) :
          /\ trace[i].out \in {"ResourceExhausted", "InternalServerError"}
          /\ trace[i].out = "ResourceExhausted" => sleeps[i] = 100 * 60
          /\ trace[i].out = "InternalServerError" =>
                LET d == Min(Pow2(TransientBefore(i)), 60)
                IN 100 * d <= sleeps[i] /\ sleeps[i] <= 110 * d

C16_Witness ==
    /\ inv_pc = "done"
    /\ Len(trace) = 3
    /\ trace[1].out = "InternalServerError"
    /\ trace[2].out = "ResourceExhausted"
    /\ trace[3].out = "InternalServerError"
    /\ sleeps = <<105, 6000, 220>>
    /\ delay = 4

\* C17: every sleep is followed by another attempt: a call that has
\* returned has slept fewer times than it has attempted.
C17_SleepThenReattempt ==
    inv_pc = "done" => Len(sleeps) < attempt

\* C18: a DeadlineExceeded failure is handled as InternalServerError is: a
\* backoff sleep follows it and the call does not end with the error result.
C18_TimeoutIsTransient ==
    \A i \in 1..Len(trace) :
        trace[i].out = "DeadlineExceeded" =>
            /\ Len(sleeps) >= i
            /\ inv_result.kind # "error"

\* C11: a direct load_single_url that follows a direct load_single_url of
\* the same URL whose loader.load() succeeded makes no network fetch and no
\* cache write, and returns the chunks of the cached text, whatever the text.
FetchOneDone == entry = "load_single_url" /\ fetch_pc = "done"

C11_SecondCallFromCache ==
    (FetchOneDone /\ prev_call = [url |-> urls[1], fetched |-> "ok"])
        => /\ fetched[1] = "none"
           /\ w_pc[1] = "done"
           /\ cached[1].some
           /\ fetch_outcome = [kind |-> "return",
                               chunks |-> split_documents(urls[1], cached[1].val)]

\* C12: load_and_split_documents_parallel never raises; a call of
\* load_single_url whose loader.load() raised ended with the empty list;
\* and the chunks of every call that loaded its page, from the web or from
\* the cache, are in the list returned, in one block.
FetchAllDone == entry = "load_and_split_documents_parallel" /\ fetch_pc = "done"

IsBlockOf(b, s) ==
    \E i \in 0..(Len(s) - Len(b)) : SubSeq(s, i + 1, i + Len(b)) = b

TextOf(w) == IF fetched[w] = "ok" THEN full_text[w] ELSE cached[w].val

C12_FailureIsolated ==
    /\ fetch_outcome.kind # "raise"
    /\ \A w \in W : result[w].kind # "raise"
    /\ \A w \in 1..Len(urls) :
          fetched[w] = "fail" => result[w] = [kind |-> "return", chunks |-> <<>>]
    /\ FetchAllDone =>
          /\ fetch_outcome.kind = "return"
          /\ \A w \in 1..Len(urls) :
                fetched[w] # "fail" =>
                   IsBlockOf(split_documents(urls[w], TextOf(w)),
                             fetch_outcome.chunks)

\* The call of the first URL loaded two chunks, the call of the second
\* failed and was collected first.
C12_Witness ==
    /\ FetchAllDone
    /\ Len(urls) = 2
    /\ fetched = [w \in W |-> IF w = 1 THEN "ok" ELSE IF w = 2 THEN "fail" ELSE "none"]
    /\ completed = <<2, 1>>
    /\ Len(fetch_outcome.chunks) = 2

\* C19: once a save on a URL has begun, what PageCache.load returns to a call
\* of load_single_url on that URL is None or the whole text of one of the
\* saves; before, it is what the file held when the calls were started.
SavesOn(u) ==
    {v \in 1..Len(urls) :
        urls[v] = u /\ fetched[v] = "ok" /\ w_pc[v] \in {"write", "done"}}

C19_NoTornRead ==
    [][\A w \in W :
          (w_pc[w] = "load" /\ w_pc'[w] # "load" /\ cached'[w].some
              /\ SavesOn(urls[w]) # {})
            => \E v \in SavesOn(urls[w]) : cached'[w].val = full_text[v]]_vars

\* C20 as stated: in the list returned, the chunks of one URL are one block,
\* and they follow each other as the pieces of the URL's text do from left
\* to right.
ChunksOf(u, ds) == SelectSeq(ds, LAMBDA c : c.source = u)

InSplitOrder(cs, pieces) ==
    \E f \in [1..Len(cs) -> 1..Len(pieces)] :
        /\ \A i \in 1..Len(cs) : cs[i].page_content = pieces[f[i]]
        /\ \A i, j \in 1..Len(cs) : i < j => f[i] <= f[j]

C20_ChunksInOrderPerUrl ==
    FetchAllDone =>
        \A u \in Range(urls) :
            /\ IsBlockOf(ChunksOf(u, fetch_outcome.chunks), fetch_outcome.chunks)
            /\ \/ ChunksOf(u, fetch_outcome.chunks) = <<>>
               \/ \E w \in 1..Len(urls) :
                     /\ urls[w] = u
                     /\ fetched[w] # "fail"
                     /\ InSplitOrder(ChunksOf(u, fetch_outcome.chunks),
                                     SplitFrom(TextOf(w), 1))

\* C20 amended: the list is the chunks of the calls of load_single_url, call
\* after call in the order the calls were collected, and the chunks of one
\* call are the left-to-right split of the text it loaded.
RECURSIVE ChunksInOrder(_)
ChunksInOrder(ws) ==
    IF ws = <<>> THEN <<>>
    ELSE (IF fetched[Head(ws)] = "fail" THEN <<>>
          ELSE split_documents(urls[Head(ws)], TextOf(Head(ws))))
         \o ChunksInOrder(Tail(ws))

C20_ChunksInOrderPerCall ==
    entry = "load_and_split_documents_parallel" =>
        /\ all_docs = ChunksInOrder(completed)
        /\ fetch_pc = "done" => /\ fetch_outcome.chunks = all_docs
                                /\ Range(completed) = 1..Len(urls)

\* Two URLs of two chunks each, the second collected first.
C20_Witness ==
    /\ FetchAllDone
    /\ urls = <<1, 2>>
    /\ completed = <<2, 1>>
    /\ Len(fetch_outcome.chunks) = 4
    /\ fetch_outcome.chunks[1].source = 2
    /\ fetch_outcome.chunks[1].page_content # fetch_outcome.chunks[2].page_content

\* C21: the links the backfill appends are in their original order, none
\* of them has the URL of a link selected before it, and the selection is
\* no longer than the longer of the prefix and min_links (for a budget of at
\* least 1, also when min_links exceeds the number of candidates).
C21_BackfillNoDuplicates ==
    (rank_pc # "idle" /\ TOTAL_EMBEDDING_BUDGET >= 1) =>
        LET prefix == PrefixSelection(link_data, query, TOTAL_EMBEDDING_BUDGET)
            n == Len(selected_links)
        IN /\ n <= Max(Len(prefix), min_links)
           /\ n <= Len(link_data)
           /\ \A i, j \in (Len(prefix) + 1)..n :
                 i < j => selected_links[i] < selected_links[j]
           /\ \A j \in (Len(prefix) + 1)..n : \A i \in 1..(j - 1) :
                 link_data[selected_links[i]].url
                    # link_data[selected_links[j]].url

\* C24: for a budget of at least 1, one invocation issues at most
\* max(TOTAL_EMBEDDING_BUDGET - 1, min_links) document embedding calls and
\* at most one per candidate; the query embedding is the first call and is
\* issued once; and the step that embeds the query leaves the embedding
\* cache as it is, also when it fails.
DocCalls == Len(misses)

C24_DocCallsBounded ==
    /\ [](TOTAL_EMBEDDING_BUDGET >= 1 =>
             /\ DocCalls <= Max(TOTAL_EMBEDDING_BUDGET - 1, min_links)
             /\ DocCalls <= Len(link_data))
    /\ [](/\ rank_pc \in {"idle", "embed_query"} => embed_calls = 0
          /\ rank_pc \in {"embed_docs", "done"} => embed_calls = 1 + DocCalls
          /\ DocCalls > 0 => query_embedding # <<>>)
    /\ [][rank_pc = "embed_query" => embFiles' = embFiles /\ misses' = <<>>]_vars

\* An invocation that backfilled beyond the budget and made as many
\* document embedding calls as the bound allows.
C24_Witness ==
    /\ Ranked
    /\ TOTAL_EMBEDDING_BUDGET >= 1
    /\ min_links > TOTAL_EMBEDDING_BUDGET - 1
    /\ DocCalls = min_links
    /\ DocCalls >= 2

\* The loop of lines 94-107 from position i on, the cache directory holding
\* files and the provider deterministic: the (score, url) tuples appended.
RECURSIVE ScoredFrom(_, _, _, _, _)
ScoredFrom(i, selected, ld, qe, files) ==
    IF i > Len(selected) THEN <<>>
    ELSE LET link == ld[selected[i]]
             cached_vec == EmbeddingCache_load(files, link.url)
             emb == IF cached_vec = None
                       THEN embeddings_embed_query(link.context)
                       ELSE cached_vec.val
             after == IF cached_vec = None
                         THEN EmbeddingCache_save(files, link.url, emb)
                         ELSE files
         IN <<[score |-> cosine_similarity(qe, emb), url |-> link.url,
               link |-> selected[i]]>>
            \o ScoredFrom(i + 1, selected, ld, qe, after)

\* What the invocation with these arguments returns on an empty cache
\* directory.
RankOnEmptyCache(q, ld, k, m) ==
    LET top == TopLinks(ScoredFrom(1, SelectLinks(ld, q, TOTAL_EMBEDDING_BUDGET, m),
                                   ld, embeddings_embed_query(q),
                                   [p \in KEYS |-> NoFile]), k)
    IN [i \in 1..Len(top) |-> top[i].url]

\* C22: against a deterministic provider, an invocation returns the URL list
\* that the invocation with the same query, candidate list, top_k, budget and
\* min_links returns on an empty cache, whatever earlier invocations have
\* written to the cache.
C22_SameOutputWhateverCache ==
    Ranked => outcome.value = RankOnEmptyCache(query, link_data, top_k, min_links)

\* C23: a run of run_rag_pipeline in which the ranker caught an exception and
\* returned the empty list ends by returning a result to its caller: no
\* exception is raised out of it.
C23_EmptyRankDegrades ==
    (pipe_pc = "done" /\ source = NoSource /\ exc # "none"
        /\ relevant_links = <<>>)
       => pipe_result.kind = "return"

====
